---- MODULE Spec2Model ----
(***************************************************************************)
(* The node identity of an ipfs-cluster peer (package identity): the       *)
(* Identity value, its generator (Default), its JSON codec (ToJSON,        *)
(* LoadJSON), the secret codec (DecodeClusterSecret, EncodeProtectorKey),  *)
(* the validator (Validate), the environment overlay (ApplyEnvVars) and    *)
(* persistence (SaveJSON, Clean).                                          *)
(*                                                                         *)
(* Texts are sequences of one-character strings, byte strings are          *)
(* sequences of numbers in 0..255.  The peername, which no operation       *)
(* converts, is a plain string.                                            *)
(***************************************************************************)
EXTENDS Integers, Sequences, FiniteSets, TLC

(***************************************************************************)
(* Bounds of the model.                                                    *)
(***************************************************************************)
\* private keys the crypto library can generate or parse: 1..NumKeys
NumKeys == 2
\* the secret codec is exercised on byte strings of length 0..SecretLen+ExtraLen
ExtraLen == 1

(***************************************************************************)
(* Program constants.                                                      *)
(***************************************************************************)
\* the length a non-empty cluster secret must have (case 32)
SecretLen == 32

Nil == 0
Keys == 1..NumKeys

(***************************************************************************)
(* encoding/hex                                                            *)
(***************************************************************************)
HexLower == << "0", "1", "2", "3", "4", "5", "6", "7",
               "8", "9", "a", "b", "c", "d", "e", "f" >>
HexUpper == << "0", "1", "2", "3", "4", "5", "6", "7",
               "8", "9", "A", "B", "C", "D", "E", "F" >>

\* hex.EncodeToString: two lower-case digits per byte
RECURSIVE HexEncode(_)
HexEncode(bytes) ==
    IF bytes = << >> THEN << >>
    ELSE << HexLower[(Head(bytes) \div 16) + 1], HexLower[(Head(bytes) % 16) + 1] >>
         \o HexEncode(Tail(bytes))

HexChars == {HexLower[i] : i \in 1..16} \cup {HexUpper[i] : i \in 1..16}
HexValue == [c \in HexChars |-> (CHOOSE i \in 1..16 : HexLower[i] = c \/ HexUpper[i] = c) - 1]
IsHexChar(c) == c \in HexChars
HexVal(c) == HexValue[c]

RECURSIVE HexPairs(_)
HexPairs(t) ==
    IF t = << >> THEN << >>
    ELSE << HexVal(t[1]) * 16 + HexVal(t[2]) >> \o HexPairs(SubSeq(t, 3, Len(t)))

\* hex.DecodeString: fails on a character that is no hex digit and on an odd
\* length, accepts both cases of the letters
HexDecode(t) ==
    IF (\E i \in 1..Len(t) : ~IsHexChar(t[i])) \/ Len(t) % 2 = 1
    THEN [err |-> TRUE, bytes |-> << >>]
    ELSE [err |-> FALSE, bytes |-> HexPairs(t)]

(***************************************************************************)
(* encoding/base64, StdEncoding (padded)                                   *)
(***************************************************************************)
B64 == << "A","B","C","D","E","F","G","H","I","J","K","L","M","N","O","P",
          "Q","R","S","T","U","V","W","X","Y","Z","a","b","c","d","e","f",
          "g","h","i","j","k","l","m","n","o","p","q","r","s","t","u","v",
          "w","x","y","z","0","1","2","3","4","5","6","7","8","9","+","/" >>
B64Pad == "="

RECURSIVE B64Encode(_)
B64Encode(bytes) ==
    IF Len(bytes) = 0 THEN << >>
    ELSE IF Len(bytes) = 1 THEN
        << B64[(bytes[1] \div 4) + 1], B64[((bytes[1] % 4) * 16) + 1], B64Pad, B64Pad >>
    ELSE IF Len(bytes) = 2 THEN
        << B64[(bytes[1] \div 4) + 1],
           B64[((bytes[1] % 4) * 16 + bytes[2] \div 16) + 1],
           B64[((bytes[2] % 16) * 4) + 1], B64Pad >>
    ELSE
        << B64[(bytes[1] \div 4) + 1],
           B64[((bytes[1] % 4) * 16 + bytes[2] \div 16) + 1],
           B64[((bytes[2] % 16) * 4 + bytes[3] \div 64) + 1],
           B64[(bytes[3] % 64) + 1] >>
        \o B64Encode(SubSeq(bytes, 4, Len(bytes)))

B64Chars == {B64[i] : i \in 1..64}
B64Value == [c \in B64Chars |-> (CHOOSE i \in 1..64 : B64[i] = c) - 1]
IsB64Char(c) == c \in B64Chars
B64Val(c) == B64Value[c]

\* one quantum of four characters; `last` tells whether padding may appear
B64Quantum(q, last) ==
    LET a == B64Val(q[1])
        b == B64Val(q[2])
        c == B64Val(q[3])
        d == B64Val(q[4])
    IN  IF ~IsB64Char(q[1]) \/ ~IsB64Char(q[2]) THEN [err |-> TRUE, bytes |-> << >>]
        ELSE IF q[3] = B64Pad THEN
            IF last /\ q[4] = B64Pad
            THEN [err |-> FALSE, bytes |-> << a * 4 + b \div 16 >>]
            ELSE [err |-> TRUE, bytes |-> << >>]
        ELSE IF ~IsB64Char(q[3]) THEN [err |-> TRUE, bytes |-> << >>]
        ELSE IF q[4] = B64Pad THEN
            IF last
            THEN [err |-> FALSE,
                  bytes |-> << a * 4 + b \div 16, (b % 16) * 16 + c \div 4 >>]
            ELSE [err |-> TRUE, bytes |-> << >>]
        ELSE IF ~IsB64Char(q[4]) THEN [err |-> TRUE, bytes |-> << >>]
        ELSE [err |-> FALSE,
              bytes |-> << a * 4 + b \div 16, (b % 16) * 16 + c \div 4,
                           (c % 4) * 64 + d >>]

RECURSIVE B64Quanta(_)
B64Quanta(t) ==
    IF t = << >> THEN [err |-> FALSE, bytes |-> << >>]
    ELSE LET q == B64Quantum(SubSeq(t, 1, 4), Len(t) = 4)
             r == B64Quanta(SubSeq(t, 5, Len(t)))
         IN  IF q.err \/ r.err THEN [err |-> TRUE, bytes |-> << >>]
             ELSE [err |-> FALSE, bytes |-> q.bytes \o r.bytes]

\* base64.StdEncoding.DecodeString: line breaks are skipped, the rest must be
\* whole padded quanta
B64Decode(text) ==
    LET t == SelectSeq(text, LAMBDA c : c \notin {"\n", "\r"})
    IN  IF Len(t) % 4 # 0 THEN [err |-> TRUE, bytes |-> << >>]
        ELSE B64Quanta(t)

(***************************************************************************)
(* base58 (the bitcoin alphabet) and the peer identifier's string form     *)
(***************************************************************************)
B58 == << "1","2","3","4","5","6","7","8","9","A","B","C","D","E","F","G",
          "H","J","K","L","M","N","P","Q","R","S","T","U","V","W","X","Y",
          "Z","a","b","c","d","e","f","g","h","i","j","k","m","n","o","p",
          "q","r","s","t","u","v","w","x","y","z" >>

B58Chars == {B58[i] : i \in 1..58}
B58Value == [c \in B58Chars |-> (CHOOSE i \in 1..58 : B58[i] = c) - 1]
IsB58Char(c) == c \in B58Chars
B58Val(c) == B58Value[c]

\* big-endian value of a byte string / of a base58 text
RECURSIVE BytesToNat(_)
BytesToNat(bytes) ==
    IF bytes = << >> THEN 0
    ELSE BytesToNat(SubSeq(bytes, 1, Len(bytes) - 1)) * 256 + bytes[Len(bytes)]

RECURSIVE NatToBytes(_)
NatToBytes(n) == IF n = 0 THEN << >> ELSE Append(NatToBytes(n \div 256), n % 256)

RECURSIVE B58ToNat(_)
B58ToNat(t) ==
    IF t = << >> THEN 0
    ELSE B58ToNat(SubSeq(t, 1, Len(t) - 1)) * 58 + B58Val(t[Len(t)])

RECURSIVE NatToB58(_)
NatToB58(n) == IF n = 0 THEN << >> ELSE Append(NatToB58(n \div 58), B58[(n % 58) + 1])

\* number of leading elements of s equal to x
RECURSIVE Leading(_, _)
Leading(s, x) == IF s # << >> /\ Head(s) = x THEN 1 + Leading(Tail(s), x) ELSE 0

B58Encode(bytes) ==
    [i \in 1..Leading(bytes, 0) |-> B58[1]] \o NatToB58(BytesToNat(bytes))

B58Decode(t) ==
    IF \E i \in 1..Len(t) : ~IsB58Char(t[i])
    THEN [err |-> TRUE, bytes |-> << >>]
    ELSE [err |-> FALSE,
          bytes |-> [i \in 1..Leading(t, B58[1]) |-> 0] \o NatToBytes(B58ToNat(t))]

(***************************************************************************)
(* Collaborators: go-libp2p-crypto, go-libp2p-peer, go-libp2p-pnet.        *)
(* A private key is a handle 1..NumKeys (Nil is the nil interface).        *)
(***************************************************************************)
\* PrivKey.Bytes(): the key's canonical bytes, a protobuf message holding the
\* key type (RSA = 0) and the key data
KeyBytes(k) == << 8, 0, 18, 1, k >>

\* crypto.UnmarshalPrivateKey: the key whose canonical bytes these are
UnmarshalPrivateKey(bytes) ==
    IF \E k \in Keys : KeyBytes(k) = bytes
    THEN [err |-> FALSE, key |-> CHOOSE k \in Keys : KeyBytes(k) = bytes]
    ELSE [err |-> TRUE, key |-> Nil]

\* peer.IDFromPublicKey(priv.GetPublic()): a multihash <<code, length, digest>>
\* of the public key, one per key pair
IDFromPublicKey(k) == << 18, 1, (k * 89 + 13) % 256 >>

\* multihash.Cast: at least code and length, a known code, a consistent length
MhCodes == {17, 18, 19}
MhValid(bytes) ==
    /\ Len(bytes) >= 2
    /\ bytes[1] \in MhCodes
    /\ bytes[2] = Len(bytes) - 2

\* peer.ID.Pretty() and peer.IDB58Decode
Pretty(pid) == B58Encode(pid)
IDB58Decode(t) ==
    LET d == B58Decode(t)
    IN  IF d.err \/ ~MhValid(d.bytes) THEN [err |-> TRUE, id |-> << >>]
        ELSE [err |-> FALSE, id |-> d.bytes]

\* pnet.GenerateV1Bytes: the 32 bytes the random source yields
GenerateV1Bytes == [i \in 1..SecretLen |-> (37 + i * 11) % 256]

(***************************************************************************)
(* The Identity and its JSON form                                          *)
(***************************************************************************)
Identity(pid, key, name, secret) ==
    [ID |-> pid, PrivateKey |-> key, Peername |-> name, Secret |-> secret]
ZeroIdentity == Identity(<< >>, Nil, "", << >>)

identityJSON(pid, name, key, secret) ==
    [ID |-> pid, Peername |-> name, PrivateKey |-> key, Secret |-> secret]
ZeroJSON == identityJSON(<< >>, "", << >>, << >>)

\* raw JSON bytes: either text json.Unmarshal rejects, or a document whose
\* four fields are the given texts (an absent field reads as the empty text)
Raw(doc) == [ok |-> TRUE, doc |-> doc]
BadRaw == [ok |-> FALSE, doc |-> ZeroJSON]

\* the result of os.Hostname()
Hostname(h) == IF h.err THEN "" ELSE h.name

(***************************************************************************)
(* The secret codec                                                        *)
(***************************************************************************)
\* DecodeClusterSecret without the default case: any length is returned
DecodeClusterSecret_AnyLength(hexSecret) ==
    LET d == HexDecode(hexSecret)
    IN  IF d.err THEN [err |-> "hex", secret |-> << >>]
        ELSE [err |-> "", secret |-> d.bytes]

\* DecodeClusterSecret without case 0: exactly 32 bytes are required
DecodeClusterSecret_NoEmpty(hexSecret) ==
    LET d == HexDecode(hexSecret)
    IN  IF d.err THEN [err |-> "hex", secret |-> << >>]
        ELSE IF Len(d.bytes) = SecretLen THEN [err |-> "", secret |-> d.bytes]
        ELSE [err |-> "length", secret |-> << >>]

DecodeClusterSecret(hexSecret) ==
    LET d == HexDecode(hexSecret)
    IN  IF d.err THEN [err |-> "hex", secret |-> << >>]
        ELSE IF Len(d.bytes) = 0 THEN [err |-> "", secret |-> << >>]
        ELSE IF Len(d.bytes) = SecretLen THEN [err |-> "", secret |-> d.bytes]
        ELSE [err |-> "length", secret |-> << >>]

EncodeProtectorKey(secretBytes) == HexEncode(secretBytes)

(***************************************************************************)
(* Validate                                                                *)
(***************************************************************************)
\* Validate that also rejects a secret that is neither empty nor 32 bytes
Validate_SecretChecked(idv) ==
    IF idv.ID = << >> THEN "cluster.ID not set"
    ELSE IF idv.PrivateKey = Nil THEN "no cluster.private_key set"
    ELSE IF Len(idv.Secret) \notin {0, SecretLen} THEN "bad cluster.secret"
    ELSE ""

Validate(idv) ==
    IF idv.ID = << >> THEN "cluster.ID not set"
    ELSE IF idv.PrivateKey = Nil THEN "no cluster.private_key set"
    ELSE ""

(***************************************************************************)
(* Default: the generator.  The inputs are what the collaborators return:  *)
(* h the hostname lookup, kg the key pair, pg the peer-id derivation, sg   *)
(* the secret.  The receiver is assigned field by field, as the code does. *)
(***************************************************************************)
Default(idv, h, kg, pg, sg) ==
    LET id1 == [idv EXCEPT !.Peername = Hostname(h)]
        id2 == [id1 EXCEPT !.ID = IDFromPublicKey(kg.key), !.PrivateKey = kg.key]
        id3 == [id2 EXCEPT !.Secret = GenerateV1Bytes]
    IN  IF kg.err THEN [id |-> id1, err |-> "keygen"]
        ELSE IF pg.err THEN [id |-> id1, err |-> "pidgen"]
        ELSE IF sg.err THEN [id |-> id2, err |-> "secretgen"]
        ELSE [id |-> id3, err |-> ""]

(***************************************************************************)
(* Decode: LoadJSON and applyConfigJSON                                    *)
(***************************************************************************)
\* config.SetIfNotDefault for a string: dest is assigned unless src is ""
SetIfNotDefault(src, dest) == IF src # "" THEN src ELSE dest

\* applyConfigJSON that never assigns the decoded secret
applyConfigJSON_NoSecret(idv, jID) ==
    LET pid == IDB58Decode(jID.ID)
        id1 == [idv EXCEPT !.ID = pid.id,
                           !.Peername = SetIfNotDefault(jID.Peername, idv.Peername)]
        pkb == B64Decode(jID.PrivateKey)
        pKey == UnmarshalPrivateKey(pkb.bytes)
        id2 == [id1 EXCEPT !.PrivateKey = pKey.key]
        clusterSecret == DecodeClusterSecret(jID.Secret)
    IN  IF pid.err THEN [id |-> idv, err |-> "error decoding cluster ID"]
        ELSE IF pkb.err THEN [id |-> id1, err |-> "error decoding private_key"]
        ELSE IF pKey.err THEN [id |-> id1, err |-> "error parsing private_key ID"]
        ELSE IF clusterSecret.err # "" THEN [id |-> id2, err |-> "error loading cluster secret"]
        ELSE [id |-> id2, err |-> Validate(id2)]

\* applyConfigJSON that assigns the id before it looks at the parse error
applyConfigJSON_IdBeforeCheck(idv, jID) ==
    LET pid == IDB58Decode(jID.ID)
        id0 == [idv EXCEPT !.ID = pid.id]
        id1 == [id0 EXCEPT !.Peername = SetIfNotDefault(jID.Peername, idv.Peername)]
        pkb == B64Decode(jID.PrivateKey)
        pKey == UnmarshalPrivateKey(pkb.bytes)
        id2 == [id1 EXCEPT !.PrivateKey = pKey.key]
        clusterSecret == DecodeClusterSecret(jID.Secret)
        id3 == [id2 EXCEPT !.Secret = clusterSecret.secret]
    IN  IF pid.err THEN [id |-> id0, err |-> "error decoding cluster ID"]
        ELSE IF pkb.err THEN [id |-> id1, err |-> "error decoding private_key"]
        ELSE IF pKey.err THEN [id |-> id1, err |-> "error parsing private_key ID"]
        ELSE IF clusterSecret.err # "" THEN [id |-> id2, err |-> "error loading cluster secret"]
        ELSE [id |-> id3, err |-> Validate(id3)]

\* applyConfigJSON that assigns the document's peername whatever it is
applyConfigJSON_PeernameAssigned(idv, jID) ==
    LET pid == IDB58Decode(jID.ID)
        id1 == [idv EXCEPT !.ID = pid.id, !.Peername = jID.Peername]
        pkb == B64Decode(jID.PrivateKey)
        pKey == UnmarshalPrivateKey(pkb.bytes)
        id2 == [id1 EXCEPT !.PrivateKey = pKey.key]
        clusterSecret == DecodeClusterSecret(jID.Secret)
        id3 == [id2 EXCEPT !.Secret = clusterSecret.secret]
    IN  IF pid.err THEN [id |-> idv, err |-> "error decoding cluster ID"]
        ELSE IF pkb.err THEN [id |-> id1, err |-> "error decoding private_key"]
        ELSE IF pKey.err THEN [id |-> id1, err |-> "error parsing private_key ID"]
        ELSE IF clusterSecret.err # "" THEN [id |-> id2, err |-> "error loading cluster secret"]
        ELSE [id |-> id3, err |-> Validate(id3)]

applyConfigJSON(idv, jID) ==
    LET pid == IDB58Decode(jID.ID)
        id1 == [idv EXCEPT !.ID = pid.id,
                           !.Peername = SetIfNotDefault(jID.Peername, idv.Peername)]
        pkb == B64Decode(jID.PrivateKey)
        pKey == UnmarshalPrivateKey(pkb.bytes)
        id2 == [id1 EXCEPT !.PrivateKey = pKey.key]
        clusterSecret == DecodeClusterSecret(jID.Secret)
        id3 == [id2 EXCEPT !.Secret = clusterSecret.secret]
    IN  IF pid.err THEN [id |-> idv, err |-> "error decoding cluster ID"]
        ELSE IF pkb.err THEN [id |-> id1, err |-> "error decoding private_key"]
        ELSE IF pKey.err THEN [id |-> id1, err |-> "error parsing private_key ID"]
        ELSE IF clusterSecret.err # "" THEN [id |-> id2, err |-> "error loading cluster secret"]
        ELSE [id |-> id3, err |-> Validate(id3)]

LoadJSON(idv, raw, h) ==
    IF ~raw.ok THEN [id |-> idv, err |-> "unmarshal"]
    ELSE applyConfigJSON([idv EXCEPT !.Peername = Hostname(h)], raw.doc)

(***************************************************************************)
(* Encode: toIdentityJSON and ToJSON.  bo is what PrivateKey.Bytes() does: *)
(* "ok", "err" (it returns an error) or "panic" (it faults); on a nil key  *)
(* the call is a nil dereference, a fault.  `abort` tells that a fault     *)
(* left the function unrecovered.                                          *)
(***************************************************************************)
PrivateKeyBytes(key, bo) ==
    IF key = Nil \/ bo = "panic" THEN [panic |-> TRUE, err |-> FALSE, bytes |-> << >>]
    ELSE IF bo = "err" THEN [panic |-> FALSE, err |-> TRUE, bytes |-> << >>]
    ELSE [panic |-> FALSE, err |-> FALSE, bytes |-> KeyBytes(key)]

\* toIdentityJSON without the deferred recover(): a fault leaves it unrecovered
toIdentityJSON_NoRecover(idv, bo) ==
    LET pkeyBytes == PrivateKeyBytes(idv.PrivateKey, bo)
    IN  IF pkeyBytes.panic THEN [jID |-> ZeroJSON, err |-> "", abort |-> TRUE]
        ELSE IF pkeyBytes.err THEN [jID |-> ZeroJSON, err |-> "bytes", abort |-> FALSE]
        ELSE [jID |-> identityJSON(Pretty(idv.ID), idv.Peername,
                                   B64Encode(pkeyBytes.bytes),
                                   EncodeProtectorKey(idv.Secret)),
              err |-> "", abort |-> FALSE]

toIdentityJSON(idv, bo) ==
    LET pkeyBytes == PrivateKeyBytes(idv.PrivateKey, bo)
    IN  IF pkeyBytes.panic
        THEN \* the deferred recover() turns the fault into the returned error
             [jID |-> ZeroJSON, err |-> "recovered", abort |-> FALSE]
        ELSE IF pkeyBytes.err THEN [jID |-> ZeroJSON, err |-> "bytes", abort |-> FALSE]
        ELSE [jID |-> identityJSON(Pretty(idv.ID), idv.Peername,
                                   B64Encode(pkeyBytes.bytes),
                                   EncodeProtectorKey(idv.Secret)),
              err |-> "", abort |-> FALSE]

ToJSON(idv, bo) ==
    LET j == toIdentityJSON(idv, bo)
    IN  IF j.err # "" \/ j.abort THEN [raw |-> BadRaw, err |-> j.err, abort |-> j.abort]
        ELSE [raw |-> Raw(j.jID), err |-> "", abort |-> FALSE]

(***************************************************************************)
(* Overlay: ApplyEnvVars.  env gives, for each of CLUSTER_ID,              *)
(* CLUSTER_PEERNAME, CLUSTER_PRIVATEKEY and CLUSTER_SECRET, whether the    *)
(* variable is set and its value.                                          *)
(***************************************************************************)
\* envconfig.Process: a variable that is set (os.LookupEnv finds it), even to
\* the empty string, is written to its field; an unset one is skipped
Process(env, jID) ==
    identityJSON(IF env.ID.set THEN env.ID.val ELSE jID.ID,
                 IF env.Peername.set THEN env.Peername.val ELSE jID.Peername,
                 IF env.PrivateKey.set THEN env.PrivateKey.val ELSE jID.PrivateKey,
                 IF env.Secret.set THEN env.Secret.val ELSE jID.Secret)

ApplyEnvVars(idv, bo, env) ==
    LET j == toIdentityJSON(idv, bo)
        r == applyConfigJSON(idv, Process(env, j.jID))
    IN  IF j.err # "" \/ j.abort THEN [id |-> idv, err |-> j.err, abort |-> j.abort]
        ELSE [id |-> r.id, err |-> r.err, abort |-> FALSE]

(***************************************************************************)
(* Persistence: SaveJSON writes the encoded bytes, Clean removes the file. *)
(* Each returns what it did to the file.  wr is what ioutil.WriteFile      *)
(* does: "ok", "open" (it fails before truncating the file) or "write"     *)
(* (it fails midway: there is no atomic rename, a partial file is left).   *)
(***************************************************************************)
SaveJSON(idv, bo, wr) ==
    LET bs == ToJSON(idv, bo)
    IN  IF bs.err # "" \/ bs.abort
        THEN [file |-> "untouched", raw |-> BadRaw, err |-> bs.err, abort |-> bs.abort]
        ELSE IF wr = "ok" THEN [file |-> "written", raw |-> bs.raw, err |-> "", abort |-> FALSE]
        ELSE IF wr = "open" THEN [file |-> "untouched", raw |-> BadRaw, err |-> "io", abort |-> FALSE]
        ELSE [file |-> "partial", raw |-> BadRaw, err |-> "io", abort |-> FALSE]

\* os.Remove, its error dropped
Clean(rm) == IF rm THEN "removed" ELSE "untouched"

(***************************************************************************)
(* The inputs the environment can supply                                   *)
(***************************************************************************)
\* os.Hostname(): a name, or an error
HostResults == {[err |-> FALSE, name |-> "host1"], [err |-> TRUE, name |-> ""]}
\* crypto.GenerateKeyPair, peer.IDFromPublicKey and pnet.GenerateV1Bytes
KeyGenResults == {[err |-> FALSE, key |-> k] : k \in Keys} \cup {[err |-> TRUE, key |-> Nil]}
PidResults == {[err |-> FALSE], [err |-> TRUE]}
SecretGenResults == {[err |-> FALSE], [err |-> TRUE]}
BytesOutcomes == {"ok", "err", "panic"}
WriteOutcomes == {"ok", "open", "write"}

\* texts a document can carry for each field: what encode emits, the empty
\* text, and a text the field's decoder rejects
NotAValidId == << "n", "o", "t", "-", "a", "-", "i", "d" >>
NotBase64 == << "!", "!", "!", "!" >>
OneByteSecret == << "0", "0" >>
IdTexts == {Pretty(IDFromPublicKey(k)) : k \in Keys} \cup {<< >>, NotAValidId}
KeyTexts == {B64Encode(KeyBytes(k)) : k \in Keys} \cup {NotBase64}
SecretTexts == {EncodeProtectorKey(GenerateV1Bytes), << >>, OneByteSecret}
\* peernames: none, or the one name a peer of the model goes by
Peernames == {""} \cup {h.name : h \in HostResults}

Docs == {identityJSON(i, p, k, s) : i \in IdTexts, p \in Peernames,
                                    k \in KeyTexts, s \in SecretTexts}
RawInputs == {Raw(d) : d \in Docs} \cup {BadRaw}

\* an environment variable is unset, or set to a text (the empty one included)
EnvVar(Texts, empty) ==
    {[set |-> FALSE, val |-> empty]} \cup {[set |-> TRUE, val |-> t] : t \in Texts}
Envs == [ID : EnvVar({<< >>, Pretty(IDFromPublicKey(NumKeys))}, << >>),
         Peername : EnvVar(Peernames, ""),
         PrivateKey : EnvVar({<< >>, B64Encode(KeyBytes(NumKeys))}, << >>),
         Secret : EnvVar(SecretTexts, << >>)]
NoEnv == [ID |-> [set |-> FALSE, val |-> << >>], Peername |-> [set |-> FALSE, val |-> ""],
          PrivateKey |-> [set |-> FALSE, val |-> << >>], Secret |-> [set |-> FALSE, val |-> << >>]]
NoHost == [err |-> TRUE, name |-> ""]

(***************************************************************************)
(* The state: one Identity, whether a fault has aborted the process, and   *)
(* the last call made on the Identity: its name, the bytes it was given    *)
(* (LoadJSON) or returned (ToJSON, SaveJSON's write), the environment it   *)
(* read, the hostname it was told, what PrivateKey.Bytes() did when it was *)
(* called, what the call did to the file and the error it returned ("" is  *)
(* nil).                                                                   *)
(***************************************************************************)
VARIABLES id, crashed, last, codec
vars == << id, crashed, last, codec >>

\* a call of the secret codec, which touches no Identity: the bytes given to
\* EncodeProtectorKey, the text it returned or DecodeClusterSecret was given,
\* the bytes and the error DecodeClusterSecret returned
Codec(op, bytes, text, out, err) ==
    [op |-> op, bytes |-> bytes, text |-> text, out |-> out, err |-> err]

Call(op, raw, env, h, bo, f, err) ==
    [op |-> op, raw |-> raw, env |-> env, host |-> Hostname(h), keybytes |-> bo,
     file |-> f, err |-> err]

Init ==
    /\ id = ZeroIdentity
    /\ crashed = FALSE
    /\ last = Call("new", BadRaw, NoEnv, NoHost, "none", "untouched", "")
    /\ codec = Codec("none", << >>, << >>, << >>, "")

DoDefault ==
    /\ ~crashed
    /\ \E h \in HostResults, kg \in KeyGenResults, pg \in PidResults, sg \in SecretGenResults :
         LET r == Default(id, h, kg, pg, sg)
         IN  /\ id' = r.id
             /\ last' = Call("Default", BadRaw, NoEnv, h, "none", "untouched", r.err)
    /\ UNCHANGED << crashed, codec >>

DoLoadJSON ==
    /\ ~crashed
    /\ \E raw \in RawInputs, h \in HostResults :
         LET r == LoadJSON(id, raw, h)
         IN  /\ id' = r.id
             /\ last' = Call("LoadJSON", raw, NoEnv, h, "none", "untouched", r.err)
    /\ UNCHANGED << crashed, codec >>

DoValidate ==
    /\ ~crashed
    /\ last' = Call("Validate", BadRaw, NoEnv, NoHost, "none", "untouched", Validate(id))
    /\ UNCHANGED << id, crashed, codec >>

DoToJSON ==
    /\ ~crashed
    /\ \E bo \in BytesOutcomes :
         LET r == ToJSON(id, bo)
         IN  /\ last' = Call("ToJSON", r.raw, NoEnv, NoHost, bo, "untouched", r.err)
             /\ crashed' = r.abort
    /\ UNCHANGED << id, codec >>

DoApplyEnvVars ==
    /\ ~crashed
    /\ \E bo \in BytesOutcomes :
       \* the environment is read only once the Identity is encoded
       \E env \in IF toIdentityJSON(id, bo).err = "" THEN Envs ELSE {NoEnv} :
         LET r == ApplyEnvVars(id, bo, env)
         IN  /\ id' = r.id
             /\ last' = Call("ApplyEnvVars", BadRaw, env, NoHost, bo, "untouched", r.err)
             /\ crashed' = r.abort
    /\ UNCHANGED codec

DoSaveJSON ==
    /\ ~crashed
    /\ \E bo \in BytesOutcomes, wr \in WriteOutcomes :
         LET r == SaveJSON(id, bo, wr)
         IN  /\ last' = Call("SaveJSON", r.raw, NoEnv, NoHost, bo, r.file, r.err)
             /\ crashed' = r.abort
    /\ UNCHANGED << id, codec >>

DoClean ==
    /\ ~crashed
    /\ \E rm \in BOOLEAN : last' = Call("Clean", BadRaw, NoEnv, NoHost, "none", Clean(rm), "")
    /\ UNCHANGED << id, crashed, codec >>

Next ==
    \/ DoDefault
    \/ DoLoadJSON
    \/ DoValidate
    \/ DoToJSON
    \/ DoApplyEnvVars
    \/ DoSaveJSON
    \/ DoClean

Spec == Init /\ [][Next]_vars

(***************************************************************************)
(* The secret codec on its own: DecodeClusterSecret and EncodeProtectorKey *)
(* are exported functions.  They are given byte strings of every length    *)
(* 0..SecretLen+ExtraLen and texts that are their hex forms in lower and   *)
(* upper case, with a digit dropped, and with a character that is no digit.*)
(***************************************************************************)
ByteString(n, seed) == [i \in 1..n |-> (seed * 37 + i * 11) % 256]
Seeds == {0, 1, 7}
ByteInputs == {ByteString(n, seed) : n \in 0..(SecretLen + ExtraLen), seed \in Seeds}

UpperCase(t) ==
    [i \in 1..Len(t) |->
        IF \E j \in 1..16 : HexLower[j] = t[i]
        THEN HexUpper[CHOOSE j \in 1..16 : HexLower[j] = t[i]] ELSE t[i]]
TextInputs ==
    LET Hex == {HexEncode(b) : b \in ByteInputs}
    IN  Hex \cup {UpperCase(t) : t \in Hex}
            \cup {Tail(t) : t \in Hex \ {<< >>}}
            \cup {<< "g" >> \o Tail(t) : t \in Hex \ {<< >>}}

DoEncodeProtectorKey ==
    /\ \E b \in ByteInputs :
         codec' = Codec("Encode", b, EncodeProtectorKey(b), << >>, "")
    /\ UNCHANGED << id, crashed, last >>

DoDecodeClusterSecret ==
    /\ \E t \in TextInputs :
         LET r == DecodeClusterSecret(t)
         IN  codec' = Codec("Decode", << >>, t, r.secret, r.err)
    /\ UNCHANGED << id, crashed, last >>

\* DecodeClusterSecret(EncodeProtectorKey(b))
DoDecodeEncoded ==
    /\ codec.op = "Encode"
    /\ LET r == DecodeClusterSecret(codec.text)
       IN  codec' = Codec("EncodeDecode", codec.bytes, codec.text, r.secret, r.err)
    /\ UNCHANGED << id, crashed, last >>

NextSecret ==
    \/ DoEncodeProtectorKey
    \/ DoDecodeClusterSecret
    \/ DoDecodeEncoded

SpecSecret == Init /\ [][NextSecret]_vars

(***************************************************************************)
(* Validate on its own, on any Identity a caller can build: the fields are *)
(* exported, so id, key, peername and secret are independent, and the      *)
(* secret has any length.                                                  *)
(***************************************************************************)
AnyIdentity ==
    {Identity(pid, key, name, secret) :
        pid \in {<< >>} \cup {IDFromPublicKey(k) : k \in Keys},
        key \in {Nil} \cup Keys,
        name \in Peernames,
        secret \in {ByteString(n, 1) : n \in {0, 1, SecretLen, SecretLen + ExtraLen}}}

InitValidate ==
    /\ id \in AnyIdentity
    /\ crashed = FALSE
    /\ last = Call("new", BadRaw, NoEnv, NoHost, "none", "untouched", "")
    /\ codec = Codec("none", << >>, << >>, << >>, "")

NextValidate == DoValidate

SpecValidate == InitValidate /\ [][NextValidate]_vars

(***************************************************************************)
(* Properties                                                              *)
(***************************************************************************)
Mutators == {"Default", "LoadJSON", "ApplyEnvVars"}
Succeeded == last.op \in Mutators /\ last.err = ""

\* the Identities a successful Default leaves
DefaultResults ==
    {r.id : r \in {d \in {Default(ZeroIdentity, h, kg, pg, sg) :
                            h \in HostResults, kg \in KeyGenResults,
                            pg \in PidResults, sg \in SecretGenResults} : d.err = ""}}

\* C1: LoadJSON on the bytes ToJSON returns for a generated Identity succeeds
\* and gives the same id, the same private key bytes and the same secret,
\* and the same peername when the generated peername is not empty
RoundTrip ==
    \A x \in DefaultResults :
        (last.op = "LoadJSON" /\ last.raw = ToJSON(x, "ok").raw)
        => /\ last.err = ""
           /\ id.ID = x.ID
           /\ id.PrivateKey # Nil
           /\ KeyBytes(id.PrivateKey) = KeyBytes(x.PrivateKey)
           /\ id.Secret = x.Secret
           /\ (x.Peername # "" => id.Peername = x.Peername)

\* a generated Identity with a peername, loaded where the hostname lookup fails
RoundTripWitness ==
    \E x \in DefaultResults :
        /\ x.Peername # ""
        /\ last.op = "LoadJSON" /\ last.raw = ToJSON(x, "ok").raw
        /\ last.host = ""
        /\ id = x

\* C2: after a successful Default, LoadJSON or ApplyEnvVars the id is the
\* peer identifier of the Identity's own private key
KeyPairConsistent ==
    Succeeded => id.PrivateKey # Nil /\ id.ID = IDFromPublicKey(id.PrivateKey)

\* C3: after a successful Default, LoadJSON or ApplyEnvVars the Identity
\* passes Validate and its secret is empty or 32 bytes long, and 32 bytes
\* long after Default
ValidAfterSuccess ==
    Succeeded =>
        /\ Validate(id) = ""
        /\ id.ID # << >> /\ id.PrivateKey # Nil
        /\ Len(id.Secret) \in {0, SecretLen}
        /\ (last.op = "Default" => Len(id.Secret) = SecretLen)

\* an overlay that succeeded on an Identity with a full secret
ValidAfterSuccessWitness ==
    /\ last.op = "ApplyEnvVars" /\ last.err = ""
    /\ last.env.Secret.set
    /\ Len(id.Secret) = SecretLen

\* the environment was read by the call that just returned
EnvRead == last'.op = "ApplyEnvVars" /\ last'.keybytes = "ok" /\ id.PrivateKey # Nil

\* C5: ApplyEnvVars on a valid Identity leaves every field whose variable is
\* unset or empty as it was, and with no variable set it succeeds and
\* changes nothing
EnvKeepsUnsetFields ==
    [][(EnvRead /\ Validate(id) = "") =>
          /\ (~last'.env.ID.set \/ last'.env.ID.val = << >> => id'.ID = id.ID)
          /\ (~last'.env.Peername.set \/ last'.env.Peername.val = ""
                => id'.Peername = id.Peername)
          /\ (~last'.env.PrivateKey.set \/ last'.env.PrivateKey.val = << >>
                => id'.PrivateKey = id.PrivateKey)
          /\ (~last'.env.Secret.set \/ last'.env.Secret.val = << >>
                => id'.Secret = id.Secret)
          /\ (last'.env = NoEnv => last'.err = "" /\ id' = id)]_vars

\* C6: a Default that fails leaves the receiver as it was
FailedDefaultLeavesNothing ==
    [][(last'.op = "Default" /\ last'.err # "") => id' = id]_vars

\* the document's id text is no valid peer identifier
BadIdDoc(raw) == raw.ok /\ IDB58Decode(raw.doc.ID).err

\* C7 as stated: a LoadJSON whose document has an invalid id fails with the
\* id parse error and leaves id, private key, peername and secret as they were
BadIdTouchesNothing ==
    [][(last'.op = "LoadJSON" /\ BadIdDoc(last'.raw)) =>
          /\ last'.err = "error decoding cluster ID"
          /\ id' = id]_vars

\* C7 amended: it fails with the id parse error and leaves id, private key
\* and secret as they were; the peername is the hostname default
BadIdTouchesPeernameOnly ==
    [][(last'.op = "LoadJSON" /\ BadIdDoc(last'.raw)) =>
          /\ last'.err = "error decoding cluster ID"
          /\ id' = [id EXCEPT !.Peername = last'.host]]_vars

\* a failed load of a document with a bad id on an Identity that had a key,
\* a secret and a peername other than the hostname default
BadIdWitness ==
    /\ last.op = "LoadJSON" /\ BadIdDoc(last.raw)
    /\ last.err = "error decoding cluster ID"
    /\ id.PrivateKey # Nil /\ Len(id.Secret) = SecretLen
    /\ id.Peername = "" /\ last.host = ""

(***************************************************************************)
(* The decode step: the document handed to applyConfigJSON and the         *)
(* peername the Identity has when field application begins.                *)
(***************************************************************************)
Decoding ==
    \/ last'.op = "LoadJSON" /\ last'.raw.ok
    \/ EnvRead
DecodedPeername ==
    IF last'.op = "LoadJSON" THEN last'.raw.doc.Peername
    ELSE IF last'.env.Peername.set THEN last'.env.Peername.val ELSE id.Peername
DecodedIdText ==
    IF last'.op = "LoadJSON" THEN last'.raw.doc.ID
    ELSE IF last'.env.ID.set THEN last'.env.ID.val ELSE Pretty(id.ID)
PeernameAtDecode == IF last'.op = "LoadJSON" THEN last'.host ELSE id.Peername

\* C8 as stated: decode overwrites the peername with the document's only if
\* that is not empty, and a document without a peername leaves the peername
\* the Identity had before the call
PeernameKeptFromBefore ==
    [][Decoding =>
          /\ (id'.Peername # id.Peername => DecodedPeername # "")
          /\ (DecodedPeername = "" => id'.Peername = id.Peername)]_vars

\* C8 amended: decode overwrites the peername with the document's only if
\* that is not empty, and a document without a peername leaves the peername
\* the Identity has when field application begins: for ApplyEnvVars the one
\* it had before the call, for LoadJSON the hostname default just assigned
PeernameSetIfPresent ==
    [][Decoding =>
          id'.Peername =
              IF ~IDB58Decode(DecodedIdText).err /\ DecodedPeername # ""
              THEN DecodedPeername
              ELSE PeernameAtDecode]_vars

\* a document without a peername was loaded on an Identity that had one
PeernameWitness ==
    /\ last.op = "LoadJSON" /\ last.raw.ok /\ last.err = ""
    /\ last.raw.doc.Peername = ""
    /\ last.host # "" /\ id.Peername = last.host

\* the encoding of the Identity fails: the key is nil, or Bytes() errs or faults
EncodeFails ==
    /\ last'.op \in {"ToJSON", "SaveJSON", "ApplyEnvVars"}
    /\ (id.PrivateKey = Nil \/ last'.keybytes \in {"err", "panic"})

\* C10: when the private key's bytes cannot be had, ToJSON, SaveJSON and
\* ApplyEnvVars return an error, nothing aborts, no file is written and the
\* Identity is unchanged
EncodeFailsNotCrashes ==
    [][EncodeFails =>
          /\ ~crashed'
          /\ last'.err # ""
          /\ last'.file = "untouched" /\ ~last'.raw.ok
          /\ id' = id]_vars

\* SaveJSON has returned the error of a faulting Bytes() on a generated key
EncodeFailsWitness ==
    /\ last.op = "SaveJSON" /\ last.keybytes = "panic"
    /\ id.PrivateKey # Nil
    /\ last.err = "recovered" /\ ~crashed

\* hex text: an even number of hex digits, two for each byte
WellFormedHex(t) == Len(t) % 2 = 0 /\ \A i \in 1..Len(t) : t[i] \in HexChars

ValidationLaw ==
    [][last'.op = "Validate" =>
          /\ id' = id
          /\ last'.err # "" <=> (id.ID = << >> \/ id.PrivateKey = Nil)
          /\ (id.ID = << >> => last'.err = "cluster.ID not set")
          /\ (id.ID # << >> /\ id.PrivateKey = Nil
                => last'.err = "no cluster.private_key set")]_vars

\* Validate has passed an Identity whose secret is one byte long
ValidationWitness ==
    /\ last.op = "Validate" /\ last.err = ""
    /\ Len(id.Secret) = 1

====
